---- MODULE Spec2Model ----
(***************************************************************************)
(* MatrixReactionHandler (src/MPSInterfaceAdaptor/MatrixReactionHandler.ts) *)
(* as a state machine.  One handler instance is bound to one room and one  *)
(* client user.  Every action is the code that runs between two            *)
(* suspension points (await) of one operation; the transport (getEvent,    *)
(* sendReaction, forEachRelation, redactEvent) answers nondeterministically*)
(* with success or failure.                                                *)
(*                                                                         *)
(* JavaScript values are modelled as strings, records and sequences:       *)
(* undefined is the string "undefined", false the string "false", a        *)
(* Result is a record [isOk, ok, error], a JS object / Map a sequence of   *)
(* [key, value] entries in insertion order.                                *)
(***************************************************************************)
EXTENDS Integers, Sequences, FiniteSets, Bags, TLC

VARIABLES
    listeners,    \* EventEmitter registry: registrations in order, [name, cb]
    inFlight,     \* bag of handleEvent calls suspended at `await getEvent`
    lastHandled,  \* the handleEvent call that completed last, with what it did
    reactions,    \* the reaction events now attached to the prompt, [sender, key]
    redacting,    \* reactions with a redactEvent call in flight
    lifecycle,    \* the addReactionsToEvent / completePrompt / cancelPrompt call
                  \* in progress or completed last, with what it did
    swept,        \* history: a sweep succeeded, and since then no reaction was
                  \* added to the prompt and no redaction failed
    winners,      \* history, kept where dispatches are followed across calls:
                  \* the keys of the prompt dispatched to a listener so far
    computed,     \* the call of a synchronous function under study: createAnnotation,
                  \* numberToEmoji or createItemizedReactionMap, with its result
    running,      \* the handleEvent call resumed after getEvent and now on the
                  \* stack, kept where its synchronous run is followed line by line
    completed     \* history, kept where repeated deliveries are followed: the
                  \* handleEvent calls that have returned, in order

dispatchVars == <<listeners, inFlight, lastHandled, running>>
roomVars == <<reactions, redacting, lifecycle, swept>>
vars == <<listeners, inFlight, lastHandled, reactions, redacting, lifecycle, swept,
         winners, computed, running, completed>>

----------------------------------------------------------------------------
(* Bounds of the model *)

MaxListeners == 2
MaxInFlight == 2
MaxNumber == 110
MaxItems == 10
MaxDeliveries == 3

----------------------------------------------------------------------------
(* Values *)

Undefined == "undefined"
JSFalse == "false"

BoundRoom == "!management"
OtherRoom == "!elsewhere"
Rooms == {BoundRoom, OtherRoom}

ClientUserID == "@bot"
OtherUser == "@alice"
Users == {ClientUserID, OtherUser}

\* Reaction keys that occur in inbound reactions.
ReactionKeys == {"1", "2", "3"}

Entry(k, v) == [key |-> k, value |-> v]

\* A sequence of entries as the set of its keys, and the lookup obj[key].
Keys(obj) == {obj[i].key : i \in 1..Len(obj)}
Lookup(obj, k) == LET i == CHOOSE j \in 1..Len(obj) : obj[j].key = k IN obj[i].value

\* The value stored under REACTION_ANNOTATION_KEY: each field carries the
\* JSON type it has on the wire, which the schema checks.
Annotation(nameType, name, mapType, map, ctx) ==
    [nameType |-> nameType, name |-> name,
     mapType |-> mapType, reaction_map |-> map, additional_context |-> ctx]

NoAnnotation == Annotation(Undefined, Undefined, Undefined, <<>>, Undefined)

RoomEventOf(id, hasKey, ann) ==
    [event_id |-> id, room_id |-> BoundRoom, sender |-> ClientUserID,
     hasAnnotationKey |-> hasKey, annotation |-> ann]

VoteMap == <<Entry("1", "accept"), Entry("2", "reject")>>

\* The events of the room that reactions point at.  Annotations are
\* immutable once posted, so the store is a constant.
EventIDs == {"$vote", "$err", "$plain", "$bad"}
Store ==
    [id \in EventIDs |->
        CASE id = "$vote" ->
               RoomEventOf(id, TRUE,
                   Annotation("string", "onVote", "object", VoteMap, "ctx"))
          [] id = "$err" ->
               RoomEventOf(id, TRUE,
                   Annotation("string", "error", "object",
                              <<Entry("1", "accept")>>, Undefined))
          [] id = "$plain" -> RoomEventOf(id, FALSE, NoAnnotation)
          [] id = "$bad" ->
               RoomEventOf(id, TRUE,
                   Annotation("number", "7", "object", VoteMap, Undefined))]

\* Results (ActionResult / Result of typescript-result).
Ok(v) == [isOk |-> TRUE, ok |-> v, error |-> Undefined]
Err(e) == [isOk |-> FALSE, ok |-> Undefined, error |-> e]
isError(r) == ~r.isOk

----------------------------------------------------------------------------
(* The prompt and its reactions *)

PromptID == "$vote"
promptEvent == Store[PromptID]

CheckMark == "white_check_mark"
CrossMark == "x"

\* Mutant of CancelledBy: the sender is left out.
CancelledBy_Anonymous(sender) == "Cancelled"

\* `Cancelled by ${promptEvent.sender}`
CancelledBy(sender) ==
    IF sender = ClientUserID THEN "Cancelled by @bot" ELSE "Cancelled by @alice"

Reaction(sender, key) == [sender |-> sender, key |-> key]

MarkMap == <<Entry(CheckMark, "accept"), Entry("2", "reject"), Entry("1", "abstain")>>

\* The reaction maps addReactionsToEvent is called with.
ReactionMaps == {<<>>, VoteMap, MarkMap}
\* The reasons completePrompt and cancelPrompt are called with.
Reasons == {Undefined, "timed out"}
\* The keys other users react to the prompt with.
UserKeys == {"1", CrossMark}

----------------------------------------------------------------------------
(* Inbound events *)

RelatesTo(k, id) == [defined |-> TRUE, key |-> k, event_id |-> id]
NoRelatesTo == [defined |-> FALSE, key |-> Undefined, event_id |-> Undefined]

InboundEvent(sender, isReaction, rel) ==
    [sender |-> sender, isReaction |-> isReaction, relatesTo |-> rel]

\* The relations tried: every key on the event with the two-key map, the
\* first key on the other events, and relations lacking a string key or id.
Relations ==
    {RelatesTo(k, "$vote") : k \in ReactionKeys}
    \cup {RelatesTo("1", id) : id \in EventIDs}
    \cup {RelatesTo(Undefined, "$vote"), RelatesTo("1", Undefined)}

\* The reactions the handler sends to the prompt, as the room delivers them
\* back: sendReaction posts as the bound client.
SentKeys ==
    UNION {Keys(m) : m \in ReactionMaps} \cup {CancelledBy(promptEvent.sender)}
OwnReactionEvents ==
    {InboundEvent(ClientUserID, TRUE, RelatesTo(k, PromptID)) : k \in SentKeys}
    \cup {InboundEvent(ClientUserID, TRUE, RelatesTo("1", id)) : id \in EventIDs}

\* What other users send: reactions with each relation, a reaction event
\* without m.relates_to, and an event that is no reaction.
OthersEvents ==
    {InboundEvent(OtherUser, TRUE, r) : r \in Relations \cup {NoRelatesTo}}
    \cup {InboundEvent(OtherUser, FALSE, NoRelatesTo)}

InboundEvents == OthersEvents \cup OwnReactionEvents

\* The calls of handleEvent: every inbound event in the bound room, and the
\* reactions to the prompt as they would arrive from another room.
Deliveries ==
    {<<BoundRoom, e>> : e \in InboundEvents}
    \cup {<<OtherRoom, InboundEvent(OtherUser, TRUE, RelatesTo(k, PromptID))>> :
             k \in ReactionKeys}

----------------------------------------------------------------------------
(* The listener registry (EventEmitter) *)

Callbacks == {"f", "boom"}
\* What a callback does when invoked: "boom" throws, "f" returns.
Throws(cb) == cb = "boom"

\* The registrations application code makes.
Registrations ==
    {[name |-> "onVote", cb |-> c] : c \in Callbacks}
    \cup {[name |-> "error", cb |-> "f"]}

RECURSIVE ListenersOf_AnyName(_, _)
\* Mutant of ListenersOf: the callbacks of every name.
ListenersOf_AnyName(reg, name) ==
    IF reg = <<>> THEN <<>>
    ELSE <<Head(reg).cb>> \o ListenersOf_AnyName(Tail(reg), name)

RECURSIVE ListenersOf_Reversed(_, _)
\* Mutant of ListenersOf: the callbacks of the name, last registered first.
ListenersOf_Reversed(reg, name) ==
    IF reg = <<>> THEN <<>>
    ELSE IF Head(reg).name = name
         THEN ListenersOf_Reversed(Tail(reg), name) \o <<Head(reg).cb>>
         ELSE ListenersOf_Reversed(Tail(reg), name)

RECURSIVE ListenersOf(_, _)
\* The callbacks registered under `name`, in registration order.
ListenersOf(reg, name) ==
    IF reg = <<>> THEN <<>>
    ELSE IF Head(reg).name = name
         THEN <<Head(reg).cb>> \o ListenersOf(Tail(reg), name)
         ELSE ListenersOf(Tail(reg), name)

Invocation(name, cb, key, item, ctx, map, ev) ==
    [name |-> name, cb |-> cb, key |-> key, item |-> item,
     additionalContext |-> ctx, reactionMap |-> map, annotatedEvent |-> ev]

RECURSIVE CallInOrder(_, _, _, _, _, _, _)
\* emit's loop over the listeners of one name: each is called in turn, and a
\* listener that throws ends the loop with the exception.
CallInOrder(cbs, name, key, item, ctx, map, ev) ==
    IF cbs = <<>> THEN [invoked |-> <<>>, raised |-> FALSE]
    ELSE LET this == Invocation(name, Head(cbs), key, item, ctx, map, ev)
         IN IF Throws(Head(cbs))
            THEN [invoked |-> <<this>>, raised |-> TRUE]
            ELSE LET rest == CallInOrder(Tail(cbs), name, key, item, ctx, map, ev)
                 IN [invoked |-> <<this>> \o rest.invoked, raised |-> rest.raised]

\* EventEmitter.emit(name, ...args): an "error" event nobody listens to is
\* thrown; otherwise the listeners of `name` are called in order.
emit(reg, name, key, item, ctx, map, ev) ==
    IF name = "error" /\ ListenersOf(reg, name) = <<>>
    THEN [invoked |-> <<>>, raised |-> TRUE]
    ELSE CallInOrder(ListenersOf(reg, name), name, key, item, ctx, map, ev)

----------------------------------------------------------------------------
(* JavaScript objects *)

\* The position of a key that is an array index, which a JavaScript object
\* lists before its other keys, in ascending order; -1 for any other key.
ArrayIndex(k) ==
    CASE k = "1" -> 1 [] k = "2" -> 2 [] k = "3" -> 3 [] OTHER -> -1

RECURSIVE InsertByIndex(_, _)
InsertByIndex(sorted, e) ==
    IF sorted = <<>> THEN <<e>>
    ELSE IF ArrayIndex(e.key) < ArrayIndex(Head(sorted).key)
         THEN <<e>> \o sorted
         ELSE <<Head(sorted)>> \o InsertByIndex(Tail(sorted), e)

RECURSIVE SortByIndex(_)
SortByIndex(entries) ==
    IF entries = <<>> THEN <<>>
    ELSE InsertByIndex(SortByIndex(Tail(entries)), Head(entries))

\* The own properties of an object built from `entries`, in the order the
\* object enumerates them: array indices ascending, then the other keys in
\* insertion order.
OwnPropertyOrder(entries) ==
    SortByIndex(SelectSeq(entries, LAMBDA e : ArrayIndex(e.key) >= 0))
    \o SelectSeq(entries, LAMBDA e : ArrayIndex(e.key) < 0)

\* Object.fromEntries(reactionMap)
fromEntries(reactionMap) == OwnPropertyOrder(reactionMap)

\* new Map(Object.entries(reactionMap))
ObjectEntries(obj) == OwnPropertyOrder(obj)

----------------------------------------------------------------------------
(* handleEvent *)

\* Mutant of IsReactionShape: the type of the key is not checked.
IsReactionShape_AnyKey(event) ==
    /\ event.isReaction
    /\ event.relatesTo.defined
    /\ event.relatesTo.event_id # Undefined

\* Value.Check(ReactionEvent, event) and the m.relates_to checks that follow.
IsReactionShape(event) ==
    /\ event.isReaction
    /\ event.relatesTo.defined
    /\ event.relatesTo.event_id # Undefined
    /\ event.relatesTo.key # Undefined

\* Mutant of IsRelevant: once a reaction has been dispatched, further
\* reactions are turned away (a single winner).
IsRelevant_FirstWins(roomID, event) ==
    /\ roomID = BoundRoom
    /\ event.sender # ClientUserID
    /\ IsReactionShape(event)
    /\ winners = {}

\* Mutant of IsRelevant: a reaction event handled before is turned away.
IsRelevant_OnceOnly(roomID, event) ==
    /\ roomID = BoundRoom
    /\ event.sender # ClientUserID
    /\ IsReactionShape(event)
    /\ \A i \in 1..Len(completed) : completed[i].event # event

\* Mutant of IsRelevant: once the prompt is resolved, reactions are turned
\* away.
IsRelevant_UntilResolved(roomID, event) ==
    /\ roomID = BoundRoom
    /\ event.sender # ClientUserID
    /\ IsReactionShape(event)
    /\ ~(/\ lifecycle.op \in {"completePrompt", "cancelPrompt"}
         /\ lifecycle.pc = "done"
         /\ lifecycle.result.isOk)

\* Mutant of IsRelevant: the sender is not looked at.
IsRelevant_NoSenderCheck(roomID, event) ==
    /\ roomID = BoundRoom
    /\ IsReactionShape(event)

\* The filter at the head of handleEvent: TRUE when the call goes on to fetch.
IsRelevant(roomID, event) ==
    /\ roomID = BoundRoom
    /\ event.sender # ClientUserID
    /\ IsReactionShape(event)

\* Mutant of Decode: the annotation is taken as it is, unchecked.
Decode_Unchecked(content) == Ok(content.annotation)

\* Value.Decode(ReactionAnnotatedContent, content)
Decode(content) ==
    IF /\ content.hasAnnotationKey
       /\ content.annotation.nameType = "string"
       /\ content.annotation.mapType = "object"
    THEN Ok(content.annotation)
    ELSE Err("decode")

\* reactionKey in reactionMap && reactionMap[reactionKey]
Association(reactionMap, reactionKey) ==
    IF reactionKey \in Keys(reactionMap)
    THEN Lookup(reactionMap, reactionKey)
    ELSE JSFalse

\* What the call hands to the listeners as annotatedEvent.
AnnotatedEventArg(fetched) == fetched

NoFetch == [isOk |-> FALSE, ok |-> Undefined, error |-> "not fetched"]

\* The record of a completed call: its arguments, what getEvent answered, the
\* registry at the time (empty when the call returned before getEvent), the listener
\* invocations in order, what was logged and whether the call threw.
Handled(roomID, event, calls, fetched, reg, invoked, errors, infos, raised) ==
    [done |-> TRUE, roomID |-> roomID, event |-> event, getEventCalls |-> calls,
     fetched |-> fetched, registry |-> reg, invoked |-> invoked,
     errorsLogged |-> errors, infosLogged |-> infos, raised |-> raised]

NeverHandled ==
    [done |-> FALSE, roomID |-> OtherRoom,
     event |-> InboundEvent(ClientUserID, FALSE, NoRelatesTo),
     getEventCalls |-> 0, fetched |-> NoFetch, registry |-> <<>>,
     invoked |-> <<>>, errorsLogged |-> 0, infosLogged |-> 0, raised |-> FALSE]

\* Mutant of FetchFailed: getEvent is called a second time, and fails again.
FetchFailed_Retried(reg, roomID, event, fetched) ==
    Handled(roomID, event, 2, fetched, reg, <<>>, 2, 0, FALSE)

\* The call ends at a getEvent that failed: the error is logged.
FetchFailed(reg, roomID, event, fetched) ==
    Handled(roomID, event, 1, fetched, reg, <<>>, 1, 0, FALSE)

\* The code after `await getEvent` up to the return, as one synchronous run.
AfterGetEvent(reg, roomID, event, fetched) ==
    LET key == event.relatesTo.key
        quiet(errors, infos) ==
            Handled(roomID, event, 1, fetched, reg, <<>>, errors, infos, FALSE)
    IN IF isError(fetched) THEN FetchFailed(reg, roomID, event, fetched)
       ELSE IF ~fetched.ok.hasAnnotationKey THEN quiet(0, 0)
       ELSE LET decoded == Decode(fetched.ok)
            IN IF isError(decoded) THEN quiet(1, 0)
               ELSE LET reactionMap == decoded.ok.reaction_map
                        association == Association(reactionMap, key)
                    IN IF association = Undefined THEN quiet(0, 1)
                       ELSE LET e == emit(reg, decoded.ok.name, key, association,
                                          decoded.ok.additional_context,
                                          ObjectEntries(reactionMap),
                                          AnnotatedEventArg(fetched))
                            IN Handled(roomID, event, 1, fetched, reg, e.invoked,
                                       0, 0, e.raised)

\* Mutant of SuspendsAt: the call also awaits before it emits.
SuspendsAt_Emit(pc) == pc \in {"getEvent", "emit"}

\* The places of handleEvent at which the call is suspended and other
\* operations run: the one `await`, on getEvent.
SuspendsAt(pc) == pc = "getEvent"

\* A handleEvent call resumed after getEvent: where it stands, its arguments,
\* what getEvent answered, the annotation it decoded, the association it
\* looked up, the listeners emit has still to call and those it has called.
Run(pc, roomID, event, fetched) ==
    [pc |-> pc, roomID |-> roomID, event |-> event, fetched |-> fetched,
     decoded |-> NoAnnotation, association |-> Undefined,
     pending |-> <<>>, invoked |-> <<>>]

NotRunning ==
    Run("idle", OtherRoom, InboundEvent(ClientUserID, FALSE, NoRelatesTo), NoFetch)

----------------------------------------------------------------------------
(* The prompt lifecycle *)

NoResult == [isOk |-> FALSE, ok |-> Undefined, error |-> "no result yet"]

\* The record of a lifecycle call: its arguments, where it stands, the
\* sendReaction calls made (keys, in order) and their results so far, the
\* relations forEachRelation handed to forEachCB and whether they were all
\* the reactions of the prompt, what forEachRelation answered, the
\* redactEvent calls forEachCB made, the result of the sweep and of the
\* call, what was logged, whether a redaction it issued failed before it
\* returned, whether the call before it was a completePrompt that succeeded,
\* whether its sweep ran over a prompt already swept with no redaction
\* left in flight, and the reason cancelPrompt was called with.
Call(op, pc, reactionMap, reason, followsComplete) ==
    [op |-> op, pc |-> pc, reactionMap |-> reactionMap, reason |-> reason,
     sendCalls |-> <<>>, sendResults |-> <<>>,
     enumerated |-> {}, enumeratedAll |-> FALSE,
     relationsResult |-> NoResult, issued |-> {}, redactCalls |-> 0,
     completeResult |-> NoResult, result |-> NoResult, errorsLogged |-> 0,
     redactFailed |-> FALSE, followsComplete |-> followsComplete,
     sweptBefore |-> FALSE, cancelReason |-> Undefined]

NoCall == Call("none", "idle", <<>>, Undefined, FALSE)

\* Mutant of AddStopsOn: the loop goes on after a failed send.
AddStopsOn_Never(reactionResult) == FALSE

\* addReactionsToEvent: the loop ends at a send that failed.
AddStopsOn(reactionResult) == isError(reactionResult)

\* Mutant of IsTerminalMarker: only the check mark is skipped.
IsTerminalMarker_CheckOnly(key) == key = CheckMark

\* forEachCB of completePrompt: the bot's own completion markers are skipped.
IsTerminalMarker(key) == key = CheckMark \/ key = CrossMark

\* Mutant of RedactionsFor: only the client's own reactions are redacted.
RedactionsFor_OwnOnly(relations, reason) ==
    {[reaction |-> r, reason |-> reason] :
        r \in {x \in relations :
                  ~IsTerminalMarker(x.key) /\ x.sender = ClientUserID}}

\* The redactEvent calls forEachCB makes for the relations it is handed.
RedactionsFor(relations, reason) ==
    {[reaction |-> r, reason |-> reason] :
        r \in {x \in relations : ~IsTerminalMarker(x.key)}}

\* Mutant of CompleteResult: the sweep always reports success.
CompleteResult_AlwaysOk(relationsResult) == Ok(Undefined)

\* completePrompt returns what forEachRelation returned.
CompleteResult(relationsResult) == relationsResult

\* cancelReason ?? "prompt cancelled"
ReasonOrDefault(cancelReason) ==
    IF cancelReason = Undefined THEN "prompt cancelled" ELSE cancelReason

\* Mutant of CancelStopsOn: the final reaction is sent after a failed sweep.
CancelStopsOn_Never(completeResult) == FALSE

\* cancelPrompt returns early when the sweep failed.
CancelStopsOn(completeResult) == isError(completeResult)

\* Mutant of CancelResult: a failed final reaction is returned.
CancelResult_LastFailure(completeResult, reactionResult) ==
    IF isError(reactionResult) THEN reactionResult ELSE completeResult

\* cancelPrompt's return value after the final reaction was attempted.
CancelResult(completeResult, reactionResult) == completeResult

----------------------------------------------------------------------------
(* createAnnotation, numberToEmoji and createItemizedReactionMap *)

\* Mutant of createAnnotation: the additional context is left out.
createAnnotation_NoContext(listenerName, reactionMap, additionalContext) ==
    Annotation("string", listenerName, "object", fromEntries(reactionMap),
               Undefined)

\* createAnnotation(listenerName, reactionMap, additionalContext): the value
\* stored under REACTION_ANNOTATION_KEY.
createAnnotation(listenerName, reactionMap, additionalContext) ==
    Annotation("string", listenerName, "object", fromEntries(reactionMap),
               additionalContext)

\* The arguments createAnnotation is called with.
ListenerNames == {"onVote", "error"}
AnnotatedMaps ==
    {<<>>,
     <<Entry("2", "reject"), Entry("1", "accept")>>,
     <<Entry(CrossMark, "cancel"), Entry("3", "abstain"), Entry("1", "accept")>>}
Contexts == {Undefined, "ctx"}

\* The event posted with the created annotation in its content.
CreatedID == "$created"
CreatedEvent(annotation) == RoomEventOf(CreatedID, TRUE, annotation)

\* Strings built character by character are sequences of characters.
DigitChar == <<"0", "1", "2", "3", "4", "5", "6", "7", "8", "9">>

\* A non-negative integer mantissa * 10^exponent.
Number(mantissa, exponent) == [mantissa |-> mantissa, exponent |-> exponent]

RECURSIVE DecimalDigits(_)
DecimalDigits(n) ==
    IF n < 10 THEN <<DigitChar[n + 1]>>
    ELSE DecimalDigits(n \div 10) \o <<DigitChar[(n % 10) + 1]>>

\* The decimal digit string of the integer.
PlainDecimal(number) ==
    IF number.mantissa = 0 THEN <<"0">>
    ELSE DecimalDigits(number.mantissa)
         \o [i \in 1..number.exponent |-> "0"]

RECURSIVE StripZeros(_)
StripZeros(digits) ==
    IF Len(digits) > 1 /\ digits[Len(digits)] = "0"
    THEN StripZeros(SubSeq(digits, 1, Len(digits) - 1))
    ELSE digits

\* Number.prototype.toString writes an integer below 10^21, which has at
\* most 21 digits, as its decimal digits, and a larger one in exponent
\* notation.
PlainDigitsLimit == 21

\* number.toString()
toString(number) ==
    LET plain == PlainDecimal(number)
        significant == StripZeros(plain)
    IN IF Len(plain) <= PlainDigitsLimit THEN plain
       ELSE <<significant[1]>>
            \o (IF Len(significant) > 1 THEN <<".">> \o Tail(significant) ELSE <<>>)
            \o <<"e", "+">> \o DecimalDigits(Len(plain) - 1)

\* The replacement string of a digit: the digit, U+FE0F, U+20E3.
Keycap(digit) == <<digit, "U+FE0F", "U+20E3">>

RECURSIVE ReplaceFirst(_, _, _)
\* Mutant of ReplaceAll: only the first occurrence is replaced.
ReplaceFirst(s, c, r) ==
    IF s = <<>> THEN <<>>
    ELSE IF Head(s) = c THEN r \o Tail(s)
    ELSE <<Head(s)>> \o ReplaceFirst(Tail(s), c, r)

RECURSIVE ReplaceAll(_, _, _)
\* s.replace(/c/g, r)
ReplaceAll(s, c, r) ==
    IF s = <<>> THEN <<>>
    ELSE IF Head(s) = c THEN r \o ReplaceAll(Tail(s), c, r)
    ELSE <<Head(s)>> \o ReplaceAll(Tail(s), c, r)

RECURSIVE ReplaceDigitsFrom(_, _)
\* The chain of replace calls, from the digit DigitChar[i] on.
ReplaceDigitsFrom(s, i) ==
    IF i > Len(DigitChar) THEN s
    ELSE ReplaceDigitsFrom(ReplaceAll(s, DigitChar[i], Keycap(DigitChar[i])), i + 1)

\* numberToEmoji(number)
numberToEmoji(number) == ReplaceDigitsFrom(toString(number), 1)

\* acc.set(key, item)
MapSet(acc, key, item) ==
    IF key \in Keys(acc)
    THEN [i \in 1..Len(acc) |-> IF acc[i].key = key THEN Entry(key, item) ELSE acc[i]]
    ELSE Append(acc, Entry(key, item))

\* Mutant of ItemKey: the key of the index itself.
ItemKey_ZeroBased(index) == numberToEmoji(Number(index, 0))

\* MatrixReactionHandler.numberToEmoji(index + 1)
ItemKey(index) == numberToEmoji(Number(index + 1, 0))

RECURSIVE ReduceFrom(_, _, _)
\* items.reduce from the 0-based position `index` on.
ReduceFrom(acc, items, index) ==
    IF index >= Len(items) THEN acc
    ELSE ReduceFrom(MapSet(acc, ItemKey(index), items[index + 1]), items, index + 1)

\* createItemizedReactionMap(items)
createItemizedReactionMap(items) == ReduceFrom(<<>>, items, 0)

\* The numbers numberToEmoji is called with, and the item lists
\* createItemizedReactionMap is called with.
Numbers == {Number(m, e) : m \in 0..MaxNumber, e \in {0, PlainDigitsLimit}}
Items == {"ban", "kick"}
ItemLists == UNION {[1..n -> Items] : n \in 0..MaxItems}

NothingComputed == [fn |-> "none"]

----------------------------------------------------------------------------
(* Actions *)

Init ==
    /\ listeners = <<>>
    /\ inFlight = EmptyBag
    /\ lastHandled = NeverHandled
    /\ reactions = {}
    /\ redacting = {}
    /\ lifecycle = NoCall
    /\ swept = FALSE
    /\ winners = {}
    /\ computed = NothingComputed
    /\ running = NotRunning
    /\ completed = <<>>

\* on(eventName, listener)
On(r) ==
    /\ Len(listeners) < MaxListeners
    /\ listeners' = Append(listeners, r)
    /\ UNCHANGED <<running, computed, winners, completed, inFlight, lastHandled, roomVars>>

\* handleEvent(roomID, event) up to its first suspension: a call the filter
\* rejects returns at once, any other waits for getEvent.  (What becomes of
\* the history `completed` is said where the action is used.)
HandleEvent(roomID, event) ==
    IF IsRelevant(roomID, event)
    THEN /\ BagCardinality(inFlight) < MaxInFlight
         /\ inFlight' = inFlight (+) SetToBag({[roomID |-> roomID, event |-> event]})
         /\ UNCHANGED <<running, computed, winners, listeners, lastHandled, roomVars>>
    ELSE /\ lastHandled' = Handled(roomID, event, 0, NoFetch, <<>>, <<>>, 0, 0, FALSE)
         /\ UNCHANGED <<running, computed, winners, listeners, inFlight, roomVars>>

\* getEvent answers a suspended call, which then runs to its end.  (What
\* becomes of the histories `winners` and `completed` is said where the
\* action is used.)
GetEventReturns(call, fetched) ==
    /\ BagIn(call, inFlight)
    /\ inFlight' = inFlight (-) SetToBag({call})
    /\ lastHandled' = AfterGetEvent(listeners, call.roomID, call.event, fetched)
    /\ UNCHANGED <<running, computed, listeners, roomVars>>

\* The event loop runs one operation at a time and takes up another only
\* when the one on the stack has returned or awaits.
Yielded == running.pc = "idle" \/ SuspendsAt(running.pc)

\* getEvent answers a suspended call, which is put on the stack at the line
\* after the await.
Resumed(call, fetched) ==
    /\ Yielded
    /\ BagIn(call, inFlight)
    /\ inFlight' = inFlight (-) SetToBag({call})
    /\ running' = Run("isError", call.roomID, call.event, fetched)
    /\ UNCHANGED <<computed, winners, completed, listeners, lastHandled, roomVars>>

\* The call on the stack runs its next piece of handleEvent: the test of the
\* fetch, the test for the annotation key, the decoding, the lookup of the
\* key, the call of emit, or emit's call of the next listener.
HandleEventRuns ==
    /\ running.pc # "idle"
    /\ LET key == running.event.relatesTo.key
           returns(invoked, errors, infos, raised) ==
               /\ running' = NotRunning
               /\ lastHandled' = Handled(running.roomID, running.event, 1,
                                         running.fetched, listeners, invoked,
                                         errors, infos, raised)
           goes(next) == running' = next /\ UNCHANGED lastHandled
       IN CASE running.pc = "isError" ->
                 IF isError(running.fetched)
                 THEN /\ running' = NotRunning
                      /\ lastHandled' = FetchFailed(listeners, running.roomID,
                                                    running.event, running.fetched)
                 ELSE goes([running EXCEPT !.pc = "hasAnnotation"])
            [] running.pc = "hasAnnotation" ->
                 IF ~running.fetched.ok.hasAnnotationKey
                 THEN returns(<<>>, 0, 0, FALSE)
                 ELSE goes([running EXCEPT !.pc = "decode"])
            [] running.pc = "decode" ->
                 LET decoded == Decode(running.fetched.ok)
                 IN IF isError(decoded)
                    THEN returns(<<>>, 1, 0, FALSE)
                    ELSE goes([running EXCEPT !.pc = "lookup",
                                              !.decoded = decoded.ok])
            [] running.pc = "lookup" ->
                 LET association == Association(running.decoded.reaction_map, key)
                 IN IF association = Undefined
                    THEN returns(<<>>, 0, 1, FALSE)
                    ELSE goes([running EXCEPT !.pc = "emit",
                                              !.association = association])
            [] running.pc = "emit" ->
                 LET named == ListenersOf(listeners, running.decoded.name)
                 IN IF running.decoded.name = "error" /\ named = <<>>
                    THEN returns(<<>>, 0, 0, TRUE)
                    ELSE goes([running EXCEPT !.pc = "listener",
                                              !.pending = named])
            [] running.pc = "listener" ->
                 IF running.pending = <<>>
                 THEN returns(running.invoked, 0, 0, FALSE)
                 ELSE LET cb == Head(running.pending)
                          this == Invocation(running.decoded.name, cb, key,
                                     running.association,
                                     running.decoded.additional_context,
                                     ObjectEntries(running.decoded.reaction_map),
                                     AnnotatedEventArg(running.fetched))
                      IN IF Throws(cb)
                         THEN returns(Append(running.invoked, this), 0, 0, TRUE)
                         ELSE goes([running EXCEPT
                                       !.pending = Tail(@),
                                       !.invoked = Append(@, this)])
    /\ UNCHANGED <<computed, winners, completed, listeners, inFlight, roomVars>>

GetEventOutcomes(id) == {Err("getEvent"), Ok(Store[id])}

\* A lifecycle call starts when the one before it has returned.
CanStart == lifecycle.pc \in {"idle", "done"}

Started(op, pc, reactionMap, reason) ==
    Call(op, pc, reactionMap, reason,
         lifecycle.op = "completePrompt" /\ lifecycle.result.isOk)

\* addReactionsToEvent(roomID, eventID, reactionMap) up to its first send.
AddReactionsToEvent(reactionMap) ==
    /\ CanStart
    /\ lifecycle' =
         IF reactionMap = <<>>
         THEN [Started("addReactionsToEvent", "done", reactionMap, Undefined)
                  EXCEPT !.result = Ok(Undefined)]
         ELSE [Started("addReactionsToEvent", "sendReaction", reactionMap, Undefined)
                  EXCEPT !.sendCalls = <<reactionMap[1].key>>]
    /\ UNCHANGED <<computed, winners, completed, dispatchVars, reactions, redacting, swept>>

\* What sendReaction can answer: a failure, or the id of the new reaction.
SendReactionAnswers == {Err("sendReaction"), Ok("$reaction")}

\* sendReaction answers inside addReactionsToEvent: the loop stops on a
\* failure, sends the next key, or returns when the keys are exhausted.
SendReactionReturns(reactionResult) ==
    /\ lifecycle.op = "addReactionsToEvent"
    /\ lifecycle.pc = "sendReaction"
    /\ LET n == Len(lifecycle.sendCalls)
           key == lifecycle.sendCalls[n]
           answered == [lifecycle EXCEPT !.sendResults = Append(@, reactionResult)]
       IN /\ reactions' = IF reactionResult.isOk
                          THEN reactions \cup {Reaction(ClientUserID, key)}
                          ELSE reactions
          /\ swept' = IF reactionResult.isOk THEN FALSE ELSE swept
          /\ lifecycle' =
               IF AddStopsOn(reactionResult)
               THEN [answered EXCEPT !.pc = "done", !.result = reactionResult,
                                     !.errorsLogged = @ + 1]
               ELSE IF n < Len(lifecycle.reactionMap)
               THEN [answered EXCEPT
                        !.sendCalls = Append(@, lifecycle.reactionMap[n + 1].key)]
               ELSE [answered EXCEPT !.pc = "done", !.result = Ok(Undefined)]
    /\ UNCHANGED <<computed, winners, completed, dispatchVars, redacting>>

\* completePrompt(roomID, eventID, reason) up to `await forEachRelation`.
CompletePrompt(reason) ==
    /\ CanStart
    /\ lifecycle' = Started("completePrompt", "forEachRelation", <<>>, reason)
    /\ UNCHANGED <<computed, winners, completed, dispatchVars, reactions, redacting, swept>>

\* cancelPrompt(promptEvent, cancelReason) up to the sweep's forEachRelation.
CancelPrompt(cancelReason) ==
    /\ CanStart
    /\ lifecycle' = [Started("cancelPrompt", "forEachRelation", <<>>,
                             ReasonOrDefault(cancelReason))
                        EXCEPT !.cancelReason = cancelReason]
    /\ UNCHANGED <<computed, winners, completed, dispatchVars, reactions, redacting, swept>>

\* forEachRelation hands `relations` to forEachCB: all the reactions of the
\* prompt, or those it gets to before it fails.  forEachCB fires a
\* redactEvent for each relation that is no terminal marker and awaits none.
ForEachCB(relations) ==
    /\ lifecycle.pc = "forEachRelation"
    /\ relations \subseteq reactions
    /\ LET calls == RedactionsFor(relations, lifecycle.reason)
       IN /\ redacting' = redacting \cup {c.reaction : c \in calls}
          /\ swept' = IF relations = reactions THEN TRUE ELSE swept
          /\ lifecycle' = [lifecycle EXCEPT
                              !.pc = "enumerated",
                              !.enumerated = relations,
                              !.enumeratedAll = (relations = reactions),
                              !.issued = calls,
                              !.redactCalls = Cardinality(calls),
                              !.sweptBefore = swept /\ redacting = {}]
    /\ UNCHANGED <<computed, winners, completed, dispatchVars, reactions>>

\* What forEachRelation can answer.
ForEachRelationAnswers == {Err("forEachRelation"), Ok(Undefined)}

\* forEachRelation answers, with success only when it enumerated every
\* relation.  completePrompt returns the answer; cancelPrompt returns it when
\* it is a failure and otherwise sends the final reaction.
ForEachRelationReturns(relationsResult) ==
    /\ lifecycle.pc = "enumerated"
    /\ relationsResult.isOk => lifecycle.enumeratedAll
    /\ LET completeResult == CompleteResult(relationsResult)
           answered == [lifecycle EXCEPT
                           !.relationsResult = relationsResult,
                           !.completeResult = completeResult]
       IN lifecycle' =
            IF lifecycle.op = "completePrompt" \/ CancelStopsOn(completeResult)
            THEN [answered EXCEPT !.pc = "done", !.result = completeResult]
            ELSE [answered EXCEPT
                     !.pc = "sendCancelled",
                     !.sendCalls = <<CancelledBy(promptEvent.sender)>>]
    /\ UNCHANGED <<computed, winners, completed, dispatchVars, reactions, redacting, swept>>

\* sendReaction answers cancelPrompt's final reaction: a failure is logged,
\* and the call returns.
SendCancelledReturns(reactionResult) ==
    /\ lifecycle.pc = "sendCancelled"
    /\ reactions' = IF reactionResult.isOk
                    THEN reactions \cup
                           {Reaction(ClientUserID, CancelledBy(promptEvent.sender))}
                    ELSE reactions
    /\ swept' = IF reactionResult.isOk THEN FALSE ELSE swept
    /\ lifecycle' = [lifecycle EXCEPT
                        !.sendResults = <<reactionResult>>,
                        !.errorsLogged = IF isError(reactionResult) THEN @ + 1 ELSE @,
                        !.result = CancelResult(lifecycle.completeResult, reactionResult),
                        !.pc = "done"]
    /\ UNCHANGED <<computed, winners, completed, dispatchVars, redacting>>

\* redactEvent answers a redaction fired by a sweep: on success the reaction
\* is gone from the prompt; a failure reaches no caller (Task logs it).
RedactEventReturns(reaction, ok) ==
    /\ reaction \in redacting
    /\ redacting' = redacting \ {reaction}
    /\ reactions' = IF ok THEN reactions \ {reaction} ELSE reactions
    /\ swept' = (ok /\ swept)
    /\ lifecycle' =
         IF /\ ~ok
            /\ lifecycle.pc \in {"enumerated", "sendCancelled"}
            /\ reaction \in {c.reaction : c \in lifecycle.issued}
         THEN [lifecycle EXCEPT !.redactFailed = TRUE]
         ELSE lifecycle
    /\ UNCHANGED <<computed, winners, completed, dispatchVars>>

\* Another user reacts to the prompt.
UserReacts(key) ==
    /\ Reaction(OtherUser, key) \notin reactions
    /\ reactions' = reactions \cup {Reaction(OtherUser, key)}
    /\ swept' = FALSE
    /\ UNCHANGED <<computed, winners, completed, dispatchVars, redacting, lifecycle>>

\* createAnnotation(listenerName, reactionMap, additionalContext)
CreateAnnotation(listenerName, reactionMap, additionalContext) ==
    /\ computed = NothingComputed
    /\ computed' =
         [fn |-> "createAnnotation", listenerName |-> listenerName,
          reactionMap |-> reactionMap, additionalContext |-> additionalContext,
          result |-> createAnnotation(listenerName, reactionMap, additionalContext),
          handled |-> NeverHandled]
    /\ UNCHANGED <<dispatchVars, roomVars, winners, completed>>

\* handleEvent for a reaction of another user to the event posted with the
\* created annotation, with getEvent answering the event, run to its end
\* with the registry `reg`.
ReactToCreated(key, reg) ==
    /\ computed.fn = "createAnnotation"
    /\ computed' =
         [computed EXCEPT !.handled =
             AfterGetEvent(reg, BoundRoom,
                           InboundEvent(OtherUser, TRUE, RelatesTo(key, CreatedID)),
                           Ok(CreatedEvent(computed.result)))]
    /\ UNCHANGED <<dispatchVars, roomVars, winners, completed>>

\* numberToEmoji(number)
NumberToEmoji(number) ==
    /\ computed = NothingComputed
    /\ computed' = [fn |-> "numberToEmoji", number |-> number,
                    result |-> numberToEmoji(number)]
    /\ UNCHANGED <<dispatchVars, roomVars, winners, completed>>

\* createItemizedReactionMap(items)
CreateItemizedReactionMap(items) ==
    /\ computed = NothingComputed
    /\ computed' = [fn |-> "createItemizedReactionMap", items |-> items,
                    result |-> createItemizedReactionMap(items)]
    /\ UNCHANGED <<dispatchVars, roomVars, winners, completed>>

\* The registries the created annotation is reacted to under.
CreatedRegistries == {<<>>} \cup {<<r>> : r \in Registrations}

\* The handler's correlation path: registration and inbound events.
NextDispatch ==
    \/ \E r \in Registrations : On(r)
    \/ \E d \in Deliveries : HandleEvent(d[1], d[2]) /\ UNCHANGED completed
    \/ \E call \in BagToSet(inFlight) :
         \E fetched \in GetEventOutcomes(call.event.relatesTo.event_id) :
            GetEventReturns(call, fetched) /\ UNCHANGED <<winners, completed>>

\* The prompt lifecycle: the three operations, the transport's answers and
\* the reactions of other users.
NextLifecycle ==
    \/ \E reactionMap \in ReactionMaps : AddReactionsToEvent(reactionMap)
    \/ \E reactionResult \in SendReactionAnswers : SendReactionReturns(reactionResult)
    \/ \E reason \in Reasons : CompletePrompt(reason)
    \/ \E cancelReason \in Reasons : CancelPrompt(cancelReason)
    \/ \E relations \in SUBSET reactions : ForEachCB(relations)
    \/ \E relationsResult \in ForEachRelationAnswers :
         ForEachRelationReturns(relationsResult)
    \/ \E reactionResult \in SendReactionAnswers : SendCancelledReturns(reactionResult)
    \/ \E reaction \in redacting, ok \in BOOLEAN : RedactEventReturns(reaction, ok)
    \/ \E key \in UserKeys : UserReacts(key)

\* The race between reactions to the prompt and its resolution: a listener
\* is registered under the prompt's name, other users press keys of its
\* reaction_map, each reaction is delivered while it is on the prompt, and
\* the prompt is completed or cancelled, once, at any moment.
InitRace ==
    /\ listeners = <<[name |-> promptEvent.annotation.name, cb |-> "f"]>>
    /\ inFlight = EmptyBag
    /\ lastHandled = NeverHandled
    /\ reactions = {}
    /\ redacting = {}
    /\ lifecycle = NoCall
    /\ swept = FALSE
    /\ winners = {}
    /\ computed = NothingComputed
    /\ running = NotRunning
    /\ completed = <<>>

PromptKeys == Keys(promptEvent.annotation.reaction_map)
PromptReaction(key) == InboundEvent(OtherUser, TRUE, RelatesTo(key, PromptID))

\* The history after a handleEvent call has run to its end.
WinnersAfter(handled) ==
    IF handled.invoked # <<>> /\ handled.event.relatesTo.event_id = PromptID
    THEN winners \cup {handled.event.relatesTo.key}
    ELSE winners

NextRace ==
    \/ \E key \in PromptKeys : UserReacts(key)
    \/ \E key \in PromptKeys :
         /\ Reaction(OtherUser, key) \in reactions
         /\ HandleEvent(BoundRoom, PromptReaction(key))
         /\ UNCHANGED completed
    \/ \E call \in BagToSet(inFlight) :
         \E fetched \in GetEventOutcomes(call.event.relatesTo.event_id) :
            /\ GetEventReturns(call, fetched)
            /\ winners' = WinnersAfter(lastHandled')
            /\ UNCHANGED completed
    \/ lifecycle = NoCall /\ CompletePrompt(Undefined)
    \/ lifecycle = NoCall /\ CancelPrompt(Undefined)
    \/ \E relations \in SUBSET reactions : ForEachCB(relations)
    \/ \E relationsResult \in ForEachRelationAnswers :
         ForEachRelationReturns(relationsResult)
    \/ \E reactionResult \in SendReactionAnswers : SendCancelledReturns(reactionResult)
    \/ \E reaction \in redacting, ok \in BOOLEAN : RedactEventReturns(reaction, ok)

\* The registries the run of handleEvent is followed under.
StepRegistries ==
    {<<[name |-> "onVote", cb |-> "f"], [name |-> "onVote", cb |-> c]>> :
        c \in Callbacks}

\* The reactions delivered while the run is followed: the keys of the prompt,
\* and the first key on each other event.
StepDeliveries ==
    {PromptReaction(key) : key \in PromptKeys}
    \cup {InboundEvent(OtherUser, TRUE, RelatesTo("1", id)) :
             id \in EventIDs \ {PromptID}}

InitSteps ==
    /\ listeners \in StepRegistries
    /\ inFlight = EmptyBag
    /\ lastHandled = NeverHandled
    /\ reactions = {}
    /\ redacting = {}
    /\ lifecycle = NoCall
    /\ swept = FALSE
    /\ winners = {}
    /\ computed = NothingComputed
    /\ running = NotRunning
    /\ completed = <<>>

\* handleEvent followed line by line after its await, next to other
\* handleEvent calls and to one addReactionsToEvent call followed by one
\* completePrompt or cancelPrompt call: every step but the run's own waits
\* for the stack to be free.
NextSteps ==
    \/ \E event \in StepDeliveries :
         Yielded /\ HandleEvent(BoundRoom, event) /\ UNCHANGED completed
    \/ \E call \in BagToSet(inFlight) :
         \E fetched \in GetEventOutcomes(call.event.relatesTo.event_id) :
            Resumed(call, fetched)
    \/ HandleEventRuns
    \/ Yielded /\ lifecycle = NoCall /\ AddReactionsToEvent(VoteMap)
    \/ \E reactionResult \in SendReactionAnswers :
         Yielded /\ SendReactionReturns(reactionResult)
    \/ Yielded /\ lifecycle.op = "addReactionsToEvent" /\ CompletePrompt(Undefined)
    \/ Yielded /\ lifecycle.op = "addReactionsToEvent" /\ CancelPrompt(Undefined)
    \/ \E relations \in SUBSET reactions : Yielded /\ ForEachCB(relations)
    \/ \E relationsResult \in ForEachRelationAnswers :
         Yielded /\ ForEachRelationReturns(relationsResult)
    \/ \E reactionResult \in SendReactionAnswers :
         Yielded /\ SendCancelledReturns(reactionResult)
    \/ \E reaction \in redacting, ok \in BOOLEAN :
         Yielded /\ RedactEventReturns(reaction, ok)

\* The registries repeated deliveries are followed under.
Registries == UNION {[1..n -> Registrations] : n \in 0..MaxListeners}

\* The reaction events the room delivers again and again.
Redelivered == {PromptReaction(key) : key \in PromptKeys}

InitRedelivery ==
    /\ listeners \in Registries
    /\ inFlight = EmptyBag
    /\ lastHandled = NeverHandled
    /\ reactions = {}
    /\ redacting = {}
    /\ lifecycle = NoCall
    /\ swept = FALSE
    /\ winners = {}
    /\ computed = NothingComputed
    /\ running = NotRunning
    /\ completed = <<>>

\* At-least-once delivery: the room hands the same reaction events to
\* handleEvent any number of times, and every call that returns is recorded.
NextRedelivery ==
    \/ \E event \in Redelivered :
         /\ Len(completed) + BagCardinality(inFlight) < MaxDeliveries
         /\ HandleEvent(BoundRoom, event)
         /\ completed' = IF IsRelevant(BoundRoom, event)
                         THEN completed
                         ELSE Append(completed, lastHandled')
    \/ \E call \in BagToSet(inFlight) :
         \E fetched \in GetEventOutcomes(call.event.relatesTo.event_id) :
            /\ GetEventReturns(call, fetched)
            /\ completed' = Append(completed, lastHandled')
            /\ UNCHANGED winners

\* completePrompt or cancelPrompt has returned success.
Resolved ==
    /\ lifecycle.op \in {"completePrompt", "cancelPrompt"}
    /\ lifecycle.pc = "done"
    /\ lifecycle.result.isOk

\* Reactions after the resolution: a listener is registered under the
\* prompt's name, other users press keys of its reaction_map at any moment,
\* the prompt is completed or cancelled once, and reactions to it are
\* delivered to handleEvent only after that call has returned success.
NextResolved ==
    \/ \E key \in PromptKeys : UserReacts(key)
    \/ lifecycle = NoCall /\ CompletePrompt(Undefined)
    \/ lifecycle = NoCall /\ CancelPrompt(Undefined)
    \/ \E relations \in SUBSET reactions : ForEachCB(relations)
    \/ \E relationsResult \in ForEachRelationAnswers :
         ForEachRelationReturns(relationsResult)
    \/ \E reactionResult \in SendReactionAnswers : SendCancelledReturns(reactionResult)
    \/ \E reaction \in redacting, ok \in BOOLEAN : RedactEventReturns(reaction, ok)
    \/ \E key \in PromptKeys :
         /\ Resolved
         /\ HandleEvent(BoundRoom, PromptReaction(key))
         /\ UNCHANGED completed
    \/ \E call \in BagToSet(inFlight) :
         \E fetched \in GetEventOutcomes(call.event.relatesTo.event_id) :
            /\ GetEventReturns(call, fetched)
            /\ winners' = WinnersAfter(lastHandled')
            /\ UNCHANGED completed

\* The synchronous functions, which keep no state: one call of one of them
\* is followed, and a reaction to the annotation createAnnotation returned.
NextFunctions ==
    \/ \E listenerName \in ListenerNames, reactionMap \in AnnotatedMaps,
          additionalContext \in Contexts :
            CreateAnnotation(listenerName, reactionMap, additionalContext)
    \/ \E key \in ReactionKeys \cup {CrossMark}, reg \in CreatedRegistries :
            ReactToCreated(key, reg)
    \/ \E number \in Numbers : NumberToEmoji(number)
    \/ \E items \in ItemLists : CreateItemizedReactionMap(items)

Next == NextDispatch \/ NextLifecycle \/ NextFunctions

\* The handler keeps no state but its registry, which the lifecycle
\* operations never touch, and handleEvent reads nothing of the prompt but
\* its immutable annotation: the two halves are checked apart.
SpecDispatch == Init /\ [][NextDispatch]_vars
SpecLifecycle == Init /\ [][NextLifecycle]_vars
SpecFunctions == Init /\ [][NextFunctions]_vars
SpecRace == InitRace /\ [][NextRace]_vars
SpecSteps == InitSteps /\ [][NextSteps]_vars
SpecResolved == InitRace /\ [][NextResolved]_vars
SpecRedelivery == InitRedelivery /\ [][NextRedelivery]_vars
Spec == Init /\ [][Next]_vars

----------------------------------------------------------------------------
(* Properties of handleEvent *)

\* The last completed call was a relevant reaction whose target was fetched
\* and carries a valid annotation.
AnnotationFetched ==
    /\ lastHandled.done
    /\ lastHandled.roomID = BoundRoom
    /\ lastHandled.event.sender # ClientUserID
    /\ lastHandled.getEventCalls = 1
    /\ lastHandled.fetched.isOk
    /\ lastHandled.fetched.ok.hasAnnotationKey
    /\ lastHandled.fetched.ok.annotation.nameType = "string"
    /\ lastHandled.fetched.ok.annotation.mapType = "object"

FetchedAnnotation == lastHandled.fetched.ok.annotation
ReactedKey == lastHandled.event.relatesTo.key
KeyInMap == \E j \in 1..Len(FetchedAnnotation.reaction_map) :
                FetchedAnnotation.reaction_map[j].key = ReactedKey

\* The registrations under the annotation's listener name, in order.
NamedRegistrations ==
    SelectSeq(lastHandled.registry, LAMBDA r : r.name = FetchedAnnotation.name)

\* Invocation i went to the i-th listener of the name, with the reacted key
\* and the value the reaction_map holds for it.
InvokedAsRegistered(i) ==
    /\ lastHandled.invoked[i].cb = NamedRegistrations[i].cb
    /\ lastHandled.invoked[i].name = FetchedAnnotation.name
    /\ lastHandled.invoked[i].key = ReactedKey
    /\ \E j \in 1..Len(FetchedAnnotation.reaction_map) :
          /\ FetchedAnnotation.reaction_map[j].key = ReactedKey
          /\ FetchedAnnotation.reaction_map[j].value = lastHandled.invoked[i].item

\* How many listeners of the name are reached: all of them, or those up to
\* and including the first that throws.
ReachedListeners ==
    LET throwing == {i \in 1..Len(NamedRegistrations) :
                        Throws(NamedRegistrations[i].cb)}
    IN IF throwing = {} THEN Len(NamedRegistrations)
       ELSE CHOOSE i \in throwing : \A j \in throwing : i <= j

\* C1 as claimed: a reaction with a key of the reaction_map invokes every
\* listener registered under the annotation's name exactly once with that key
\* and its association, and no listener of another name.
C1_EveryListenerInvoked ==
    (AnnotationFetched /\ KeyInMap) =>
        /\ Len(lastHandled.invoked) = Len(NamedRegistrations)
        /\ \A i \in 1..Len(lastHandled.invoked) : InvokedAsRegistered(i)

\* C1 as amended: the listeners registered under the annotation's name are
\* invoked in registration order, each exactly once with the key and its
\* association, up to and including the first listener that throws; listeners
\* registered after a throwing one, and listeners of other names, are not
\* invoked.
C1_ListenersInvokedUntilThrow ==
    (AnnotationFetched /\ KeyInMap) =>
        /\ Len(lastHandled.invoked) = ReachedListeners
        /\ \A i \in 1..Len(lastHandled.invoked) : InvokedAsRegistered(i)

\* A dispatch to a listener while a listener of another name is registered.
C1_Witness ==
    /\ AnnotationFetched /\ KeyInMap
    /\ Len(lastHandled.invoked) = 1
    /\ \E i \in 1..Len(lastHandled.registry) :
          lastHandled.registry[i].name # FetchedAnnotation.name

\* C2: a reaction whose key is not a key of the reaction_map invokes no
\* listener and produces no error.
C2_UnknownKeyIgnored ==
    (AnnotationFetched /\ ~KeyInMap) =>
        /\ lastHandled.invoked = <<>>
        /\ lastHandled.errorsLogged = 0
        /\ ~lastHandled.raised

\* C3: the annotatedEvent argument of every listener invocation is the room
\* event inside the successful getEvent result, not the result around it.
C3_ListenerGetsAnnotatedEvent ==
    lastHandled.done =>
        \A i \in 1..Len(lastHandled.invoked) :
            lastHandled.invoked[i].annotatedEvent = lastHandled.fetched.ok

\* C4: a reaction sent by the bound client is dropped by the filter: no call
\* for it is ever waiting on getEvent, and the call made for it fetches
\* nothing, invokes no listener and does not raise.
C4_OwnReactionsNeverDispatch ==
    /\ \A call \in BagToSet(inFlight) : call.event.sender # ClientUserID
    /\ (lastHandled.done /\ lastHandled.event.sender = ClientUserID) =>
          /\ lastHandled.getEventCalls = 0
          /\ lastHandled.invoked = <<>>
          /\ ~lastHandled.raised

\* One of the handler's own reactions to the annotated prompt, with a key of
\* its reaction_map, came back in the bound room while a listener of the
\* prompt's name was registered.
C4_Witness ==
    /\ lastHandled.done
    /\ lastHandled.roomID = BoundRoom
    /\ lastHandled.event \in OwnReactionEvents
    /\ lastHandled.event.relatesTo.event_id = PromptID
    /\ lastHandled.event.relatesTo.key \in Keys(promptEvent.annotation.reaction_map)
    /\ \E i \in 1..Len(listeners) :
          listeners[i].name = promptEvent.annotation.name

\* C5: no handleEvent call raises to its caller.
C5_NeverRaises == lastHandled.done => ~lastHandled.raised

\* The last completed call was a relevant reaction whose target was fetched.
TargetFetched ==
    /\ lastHandled.done
    /\ lastHandled.getEventCalls = 1
    /\ lastHandled.fetched.isOk

\* The fetched content has the annotation key, with a value of another shape.
MalformedFetched ==
    /\ TargetFetched
    /\ lastHandled.fetched.ok.hasAnnotationKey
    /\ \/ lastHandled.fetched.ok.annotation.nameType # "string"
       \/ lastHandled.fetched.ok.annotation.mapType # "object"

\* C11: a target without the annotation key is dropped with no dispatch and
\* nothing logged; a target whose annotation is malformed is dropped with no
\* dispatch and one error logged; neither call raises.
C11_NotAnnotatedVersusMalformed ==
    /\ (TargetFetched /\ ~lastHandled.fetched.ok.hasAnnotationKey) =>
          /\ lastHandled.invoked = <<>>
          /\ lastHandled.errorsLogged = 0
          /\ lastHandled.infosLogged = 0
          /\ ~lastHandled.raised
    /\ MalformedFetched =>
          /\ lastHandled.invoked = <<>>
          /\ lastHandled.errorsLogged = 1
          /\ ~lastHandled.raised

\* A reaction to an event with a malformed annotation was handled while a
\* listener was registered.
C11_Witness ==
    /\ MalformedFetched
    /\ lastHandled.registry # <<>>

\* The callbacks invoked by the last dispatch, in the order of invocation.
InvokedCallbacks ==
    [i \in 1..Len(lastHandled.invoked) |-> lastHandled.invoked[i].cb]

\* The callbacks registered under the dispatched name, in registration order.
NamedCallbacks ==
    [i \in 1..Len(NamedRegistrations) |-> NamedRegistrations[i].cb]

SeveralRegistered == AnnotationFetched /\ KeyInMap /\ Len(NamedRegistrations) >= 2

\* C12 as claimed: with several callbacks registered under the dispatched
\* name, the callbacks invoked are all of them, in registration order.
C12_AllInvokedInOrder ==
    SeveralRegistered => InvokedCallbacks = NamedCallbacks

\* C12 as amended: with several callbacks registered under the dispatched
\* name, the callbacks invoked are, in registration order, those registered
\* up to and including the first that throws: all of them when none throws.
C12_InOrderUntilThrow ==
    SeveralRegistered =>
        InvokedCallbacks = SubSeq(NamedCallbacks, 1, ReachedListeners)

\* Two different callbacks registered under the name were both invoked.
C12_Witness ==
    /\ SeveralRegistered
    /\ Len(lastHandled.invoked) = 2
    /\ lastHandled.invoked[1].cb # lastHandled.invoked[2].cb

\* C16: handleEvent holds no lock on the prompt: every reaction to the prompt
\* that is delivered is fetched, and when the fetch succeeds it is dispatched
\* to the listener, whatever key was dispatched before and whatever the
\* resolution of the prompt has done so far.
C16_NoSingleWinner ==
    lastHandled.done =>
        /\ lastHandled.getEventCalls = 1
        /\ lastHandled.fetched.isOk =>
              /\ lastHandled.invoked # <<>>
              /\ lastHandled.event.relatesTo.key \in winners

\* Two different keys of the prompt's reaction_map have both been dispatched
\* to the listener, with both reactions on the prompt and no redaction issued.
C16_Witness ==
    /\ winners = PromptKeys
    /\ Cardinality(winners) = 2
    /\ {Reaction(OtherUser, key) : key \in PromptKeys} \subseteq reactions
    /\ redacting = {}
    /\ lifecycle = NoCall

\* The event is a reaction with m.relates_to carrying a string key and a
\* string event_id.
HasReactionShape(event) ==
    /\ event.isReaction
    /\ event.relatesTo.defined
    /\ event.relatesTo.key # Undefined
    /\ event.relatesTo.event_id # Undefined

Irrelevant(roomID, event) == roomID # BoundRoom \/ ~HasReactionShape(event)

\* C18: a call for an event of another room, or for an event without the
\* reaction shape, never waits on getEvent, and it ends having called
\* getEvent zero times, invoked no listener, logged nothing and not raised.
C18_IrrelevantIsSilent ==
    /\ \A call \in BagToSet(inFlight) : ~Irrelevant(call.roomID, call.event)
    /\ (lastHandled.done /\ Irrelevant(lastHandled.roomID, lastHandled.event)) =>
          /\ lastHandled.getEventCalls = 0
          /\ lastHandled.fetched = NoFetch
          /\ lastHandled.invoked = <<>>
          /\ lastHandled.errorsLogged = 0
          /\ lastHandled.infosLogged = 0
          /\ ~lastHandled.raised

\* A reaction of another user with a key of the prompt's reaction_map was
\* delivered from another room while a listener of the prompt's name was
\* registered.
C18_Witness ==
    /\ lastHandled.done
    /\ lastHandled.roomID = OtherRoom
    /\ lastHandled.event.sender = OtherUser
    /\ HasReactionShape(lastHandled.event)
    /\ lastHandled.event.relatesTo.event_id = PromptID
    /\ lastHandled.event.relatesTo.key \in PromptKeys
    /\ \E i \in 1..Len(listeners) :
          listeners[i].name = promptEvent.annotation.name

\* C20: a call whose getEvent failed has logged one error, invoked no
\* listener and not raised, and no call makes more than one getEvent call.
C20_FetchFailureDropped ==
    lastHandled.done =>
        /\ lastHandled.getEventCalls <= 1
        /\ (lastHandled.getEventCalls = 1 /\ isError(lastHandled.fetched)) =>
              /\ lastHandled.errorsLogged = 1
              /\ lastHandled.invoked = <<>>
              /\ ~lastHandled.raised

\* getEvent failed for a reaction with a key of the prompt's reaction_map
\* while a listener of the prompt's name was registered.
C20_Witness ==
    /\ lastHandled.done
    /\ lastHandled.getEventCalls = 1
    /\ isError(lastHandled.fetched)
    /\ lastHandled.event.relatesTo.event_id = PromptID
    /\ lastHandled.event.relatesTo.key \in PromptKeys
    /\ \E i \in 1..Len(lastHandled.registry) :
          lastHandled.registry[i].name = promptEvent.annotation.name

\* C21: while a handleEvent call resumed after getEvent is on the stack,
\* every step is its own: no handleEvent call is started or resumed, no
\* lifecycle call and no transport answer moves, the call stays the same
\* until it returns, and it returns with what the lines after the await give
\* in one run under the registry of that moment.
C21_AtomicAfterFetch ==
    [][running.pc # "idle" =>
          /\ UNCHANGED <<inFlight, lifecycle, reactions, redacting>>
          /\ running'.pc # "idle" =>
                /\ lastHandled' = lastHandled
                /\ running'.roomID = running.roomID
                /\ running'.event = running.event
                /\ running'.fetched = running.fetched
          /\ running'.pc = "idle" =>
                lastHandled' = AfterGetEvent(listeners, running.roomID,
                                             running.event, running.fetched)]_vars

\* A call stands between the first and the second listener while another
\* handleEvent call awaits getEvent, a sweep awaits forEachRelation and a
\* redaction is in flight.
C21_Witness ==
    /\ running.pc = "listener"
    /\ Len(running.invoked) = 1
    /\ running.pending # <<>>
    /\ inFlight # EmptyBag
    /\ lifecycle.pc = "enumerated"
    /\ redacting # {}

\* The calls that have returned for one reaction event.
CallsOf(event) == {i \in 1..Len(completed) : completed[i].event = event}

\* The listeners registered under the name of the prompt's annotation.
PromptListeners ==
    SelectSeq(listeners, LAMBDA r : r.name = promptEvent.annotation.name)

\* The listeners of the prompt that emit gets to: all of them, or those up
\* to and including the first that throws.
PromptListenersReached ==
    LET throwing == {p \in 1..Len(PromptListeners) : Throws(PromptListeners[p].cb)}
    IN IF throwing = {} THEN 1..Len(PromptListeners)
       ELSE {p \in 1..Len(PromptListeners) : \A q \in throwing : p <= q}

\* Call i invoked the p-th listener of the prompt.
InvokedListener(i, p) ==
    /\ p <= Len(completed[i].invoked)
    /\ completed[i].invoked[p].cb = PromptListeners[p].cb

\* The listeners at the positions `positions` were invoked once in every
\* call for each event all of whose fetches succeeded, that is as many times
\* as the event was delivered, and each time with the same arguments.
InvokedPerDelivery(positions) ==
    \A event \in Redelivered :
        (\A i \in CallsOf(event) : completed[i].fetched.isOk) =>
            \A p \in positions :
                /\ Cardinality({i \in CallsOf(event) : InvokedListener(i, p)})
                      = Cardinality(CallsOf(event))
                /\ \A i, j \in CallsOf(event) :
                      completed[i].invoked[p] = completed[j].invoked[p]

\* Every delivery is fetched, however often the event was handled before.
EveryDeliveryFetched ==
    \A i \in 1..Len(completed) : completed[i].getEventCalls = 1

\* C22 as claimed: a reaction event delivered n times with every fetch
\* succeeding invokes every listener registered under the annotation's name n
\* times, each time with the same arguments.
C22_EveryListenerPerDelivery ==
    /\ EveryDeliveryFetched
    /\ InvokedPerDelivery(1..Len(PromptListeners))

\* C22 as amended: the listeners invoked n times are those registered under
\* the name up to and including the first that throws.
C22_ReachedListenersPerDelivery ==
    /\ EveryDeliveryFetched
    /\ InvokedPerDelivery(PromptListenersReached)

\* One reaction event was delivered three times, every fetch succeeded, and
\* two listeners of the name were invoked in each of the three calls.
C22_Witness ==
    \E event \in Redelivered :
        /\ Cardinality(CallsOf(event)) = 3
        /\ \A i \in CallsOf(event) :
              /\ completed[i].fetched.isOk
              /\ Len(completed[i].invoked) = 2

\* C23: a reaction with a key of the prompt's reaction_map, sent by another
\* user and delivered after completePrompt or cancelPrompt returned success,
\* is fetched, and when the fetch succeeds it is dispatched to the listener
\* with its key and the value the reaction_map holds for it, whatever
\* reactions and markers the prompt carries by then.
C23_ResolvedPromptStillDispatches ==
    lastHandled.done =>
        /\ Resolved
        /\ lastHandled.getEventCalls = 1
        /\ lastHandled.fetched.isOk =>
              /\ Len(lastHandled.invoked) = 1
              /\ lastHandled.invoked[1].key = lastHandled.event.relatesTo.key
              /\ lastHandled.invoked[1].item =
                    Lookup(promptEvent.annotation.reaction_map,
                           lastHandled.event.relatesTo.key)

\* After a cancelPrompt that returned success and whose "Cancelled by"
\* reaction is on the prompt with no other reaction left, a reaction was
\* dispatched to the listener.
C23_Witness ==
    /\ lifecycle.op = "cancelPrompt"
    /\ Resolved
    /\ reactions = {Reaction(ClientUserID, CancelledBy(promptEvent.sender))}
    /\ redacting = {}
    /\ lastHandled.done
    /\ Len(lastHandled.invoked) = 1

----------------------------------------------------------------------------
(* Properties of the prompt lifecycle *)

NonTerminal(rs) == {r \in rs : ~IsTerminalMarker(r.key)}

Returned(op) == lifecycle.op = op /\ lifecycle.pc = "done"

\* C6 as claimed: once completePrompt has returned success the prompt has no
\* reaction but terminal markers, and a completePrompt that follows a
\* successful completePrompt issues no redaction.
C6_ResolvedAndIdempotent ==
    /\ (Returned("completePrompt") /\ lifecycle.result.isOk) =>
          NonTerminal(reactions) = {}
    /\ (Returned("completePrompt") /\ lifecycle.followsComplete) =>
          lifecycle.redactCalls = 0

\* C6 as amended: after a sweep that enumerated every reaction, as long as
\* no reaction has been added and no redaction has failed, every reaction of
\* the prompt that is no terminal marker has its redaction in flight, so none
\* remains once the redactions have answered; and a completePrompt whose
\* sweep runs over a prompt in that state with no redaction in flight issues
\* no redaction.
C6_ResolvedOnceRedacted ==
    /\ swept => NonTerminal(reactions) \subseteq redacting
    /\ (Returned("completePrompt") /\ lifecycle.result.isOk
          /\ swept /\ redacting = {}) => NonTerminal(reactions) = {}
    /\ (lifecycle.op = "completePrompt" /\ lifecycle.sweptBefore) =>
          lifecycle.redactCalls = 0

\* A second completePrompt directly after a successful one has returned,
\* having swept a prompt whose redactions had all succeeded and which still
\* carries a reaction.
C6_Witness ==
    /\ Returned("completePrompt")
    /\ lifecycle.result.isOk
    /\ lifecycle.followsComplete
    /\ lifecycle.sweptBefore
    /\ lifecycle.enumerated # {}
    /\ redacting = {}

\* C7: when the sweep inside cancelPrompt fails, cancelPrompt returns that
\* failure and makes no sendReaction call.
C7_SweepFailureReturned ==
    (lifecycle.op = "cancelPrompt" /\ lifecycle.completeResult # NoResult
        /\ isError(lifecycle.completeResult)) =>
        /\ lifecycle.pc = "done"
        /\ lifecycle.result = lifecycle.completeResult
        /\ lifecycle.result = lifecycle.relationsResult
        /\ lifecycle.sendCalls = <<>>
        /\ lifecycle.sendResults = <<>>

\* cancelPrompt has returned after a sweep that failed part-way.
C7_Witness ==
    /\ Returned("cancelPrompt")
    /\ isError(lifecycle.completeResult)
    /\ lifecycle.enumerated # {}

\* C8: when the sweep inside cancelPrompt succeeds and the final reaction
\* fails to send, cancelPrompt returns the sweep's success, and the failure
\* is logged once.
C8_FinalSendFailureLogged ==
    (Returned("cancelPrompt") /\ lifecycle.sendResults # <<>>
        /\ isError(lifecycle.sendResults[1])) =>
        /\ lifecycle.completeResult.isOk
        /\ lifecycle.result = lifecycle.completeResult
        /\ lifecycle.result.isOk
        /\ lifecycle.errorsLogged = 1
        /\ lifecycle.sendCalls = <<CancelledBy(promptEvent.sender)>>

\* cancelPrompt has returned after its final reaction failed to send.
C8_Witness ==
    /\ Returned("cancelPrompt")
    /\ lifecycle.sendResults = <<Err("sendReaction")>>

\* The i-th send of the call in progress failed.
SendFailedAt(i) == i \in 1..Len(lifecycle.sendResults) /\ isError(lifecycle.sendResults[i])

\* C9: addReactionsToEvent sends the keys of the reaction map in the map's
\* order with at most one send outstanding; a failed send is the last one,
\* ends the call and is its result; the call redacts nothing; and it returns
\* success exactly when a send was made for every key and none failed.
C9_SequentialUntilFailure ==
    lifecycle.op = "addReactionsToEvent" =>
        /\ Len(lifecycle.sendCalls) <= Len(lifecycle.reactionMap)
        /\ \A i \in 1..Len(lifecycle.sendCalls) :
              lifecycle.sendCalls[i] = lifecycle.reactionMap[i].key
        /\ Len(lifecycle.sendResults) <= Len(lifecycle.sendCalls)
        /\ Len(lifecycle.sendCalls) <= Len(lifecycle.sendResults) + 1
        /\ (lifecycle.pc = "sendReaction") <=>
              (Len(lifecycle.sendCalls) = Len(lifecycle.sendResults) + 1)
        /\ \A i \in 1..Len(lifecycle.sendResults) :
              SendFailedAt(i) =>
                  /\ i = Len(lifecycle.sendCalls)
                  /\ lifecycle.pc = "done"
                  /\ lifecycle.result = lifecycle.sendResults[i]
        /\ lifecycle.redactCalls = 0
        /\ lifecycle.issued = {}
        /\ lifecycle.pc = "done" =>
              (lifecycle.result.isOk <=>
                  /\ Len(lifecycle.sendResults) = Len(lifecycle.reactionMap)
                  /\ \A i \in 1..Len(lifecycle.sendResults) : ~SendFailedAt(i))

\* addReactionsToEvent has returned the failure of the second of three
\* sends, and the reaction of the first is on the prompt.
C9_Witness ==
    /\ Returned("addReactionsToEvent")
    /\ Len(lifecycle.reactionMap) = 3
    /\ Len(lifecycle.sendCalls) = 2
    /\ ~SendFailedAt(1)
    /\ SendFailedAt(2)
    /\ isError(lifecycle.result)
    /\ Reaction(ClientUserID, lifecycle.reactionMap[1].key) \in reactions

Sweeping == lifecycle.op \in {"completePrompt", "cancelPrompt"}

\* A failed send is the result of addReactionsToEvent, and a failed
\* forEachRelation the result of completePrompt and cancelPrompt.
SendAndEnumerateFailuresPropagated ==
    /\ (Returned("addReactionsToEvent") /\ \E i \in 1..3 : SendFailedAt(i)) =>
          isError(lifecycle.result)
    /\ (Sweeping /\ lifecycle.relationsResult # NoResult
          /\ isError(lifecycle.relationsResult)) =>
          /\ lifecycle.pc = "done"
          /\ lifecycle.result = lifecycle.relationsResult

\* C10 as claimed: send and enumerate failures are propagated, and a
\* redactEvent that fails during completePrompt or cancelPrompt makes the
\* call return a failure.
C10_EveryFailurePropagated ==
    /\ SendAndEnumerateFailuresPropagated
    /\ (Sweeping /\ lifecycle.pc = "done" /\ lifecycle.redactFailed) =>
          isError(lifecycle.result)

\* C10 as amended: send failures of addReactionsToEvent and enumeration
\* failures of completePrompt and cancelPrompt are propagated; completePrompt
\* and cancelPrompt return success whenever forEachRelation succeeded,
\* whether or not a redactEvent or the final reaction failed.
C10_RedactFailuresNotPropagated ==
    /\ SendAndEnumerateFailuresPropagated
    /\ (Sweeping /\ lifecycle.pc = "done" /\ lifecycle.relationsResult.isOk) =>
          lifecycle.result.isOk

\* completePrompt has returned success although a redactEvent it issued
\* failed before it returned.
C10_Witness ==
    /\ Returned("completePrompt")
    /\ lifecycle.result.isOk
    /\ lifecycle.redactFailed

\* The status reactions of the owning client that are on the prompt.
CancelledReaction == Reaction(ClientUserID, "Cancelled by @bot")
CompletionMarkers ==
    {r \in reactions : r.sender = ClientUserID /\ IsTerminalMarker(r.key)}

\* C17 as claimed: when completePrompt has returned success a completion
\* marker of the client is on the prompt, and when cancelPrompt has returned
\* success the "Cancelled by" reaction is.
C17_StatusReactionPosted ==
    /\ (Returned("completePrompt") /\ lifecycle.result.isOk) =>
          CompletionMarkers # {}
    /\ (Returned("cancelPrompt") /\ lifecycle.result.isOk) =>
          CancelledReaction \in reactions

\* C17 as amended: completePrompt makes no sendReaction call; a cancelPrompt
\* that has returned success has made exactly one, after its sweep succeeded,
\* with the key "Cancelled by" and the sender of the prompt event, whether or
\* not that call succeeded.
C17_OnlyCancelAttemptsStatus ==
    /\ lifecycle.op = "completePrompt" =>
          /\ lifecycle.sendCalls = <<>>
          /\ lifecycle.sendResults = <<>>
    /\ (Returned("cancelPrompt") /\ lifecycle.result.isOk) =>
          /\ lifecycle.relationsResult.isOk
          /\ lifecycle.sendCalls = <<"Cancelled by @bot">>
          /\ Len(lifecycle.sendResults) = 1

\* cancelPrompt has returned success with no "Cancelled by" reaction on the
\* prompt: the send of it failed.
C17_Witness ==
    /\ Returned("cancelPrompt")
    /\ lifecycle.result.isOk
    /\ CancelledReaction \notin reactions
    /\ CompletionMarkers = {}
    /\ lifecycle.enumerated # {}

\* forEachCB has run in the sweep of the current call.
Enumerated ==
    Sweeping /\ lifecycle.pc \in {"enumerated", "sendCancelled", "done"}

\* The reason the sweep of the current call was asked to give.
CallersReason ==
    IF lifecycle.op = "cancelPrompt" /\ lifecycle.cancelReason = Undefined
    THEN "prompt cancelled"
    ELSE IF lifecycle.op = "cancelPrompt" THEN lifecycle.cancelReason
    ELSE lifecycle.reason

MarkerKeys == {CheckMark, CrossMark}

\* C19: once forEachCB has run, the redactEvent calls of the sweep are one
\* per enumerated relation whose key is neither the check mark nor the cross
\* mark, each with the caller's reason ("prompt cancelled" for a cancelPrompt
\* called without one), and none is for a relation with a marker key.
C19_OneRedactionPerNonMarker ==
    Enumerated =>
        /\ \A r \in lifecycle.enumerated :
              r.key \notin MarkerKeys =>
                  /\ Cardinality({c \in lifecycle.issued : c.reaction = r}) = 1
                  /\ [reaction |-> r, reason |-> CallersReason] \in lifecycle.issued
        /\ \A c \in lifecycle.issued :
              /\ c.reaction \in lifecycle.enumerated
              /\ c.reaction.key \notin MarkerKeys
        /\ lifecycle.redactCalls =
              Cardinality({r \in lifecycle.enumerated : r.key \notin MarkerKeys})

\* A cancelPrompt called without a reason enumerated a cross mark of another
\* user next to a reaction of the client and one of another user, and issued
\* redactions for the latter two.
C19_Witness ==
    /\ Enumerated
    /\ lifecycle.op = "cancelPrompt"
    /\ lifecycle.cancelReason = Undefined
    /\ Reaction(OtherUser, CrossMark) \in lifecycle.enumerated
    /\ Reaction(OtherUser, "1") \in lifecycle.enumerated
    /\ \E r \in lifecycle.enumerated :
          r.sender = ClientUserID /\ r.key \notin MarkerKeys
    /\ lifecycle.redactCalls >= 2

----------------------------------------------------------------------------
(* Properties of createAnnotation, numberToEmoji and createItemizedReactionMap *)

EntriesOf(map) == {map[i] : i \in 1..Len(map)}

\* A reaction to the created annotation, with a key of the reaction map
\* createAnnotation was given, has been handled.
CreatedReacted ==
    /\ computed.fn = "createAnnotation"
    /\ computed.handled.done
    /\ computed.handled.event.relatesTo.key \in Keys(computed.reactionMap)

\* C13: the annotation createAnnotation returns decodes; a reaction with a
\* key of the map it was given is dispatched to every listener registered
\* under the name it was given, and each invocation carries that name, the
\* key, the value the given map holds for the key, the given additional
\* context and a reaction map with exactly the entries of the given map.
C13_CreateAnnotationRoundTrip ==
    /\ computed.fn = "createAnnotation" =>
          Decode(CreatedEvent(computed.result)) = Ok(computed.result)
    /\ CreatedReacted =>
          /\ computed.handled.errorsLogged = 0
          /\ computed.handled.infosLogged = 0
          /\ Len(computed.handled.invoked) =
               Len(SelectSeq(computed.handled.registry,
                             LAMBDA r : r.name = computed.listenerName))
          /\ \A i \in 1..Len(computed.handled.invoked) :
                LET call == computed.handled.invoked[i]
                IN /\ call.name = computed.listenerName
                   /\ call.key = computed.handled.event.relatesTo.key
                   /\ Entry(call.key, call.item) \in EntriesOf(computed.reactionMap)
                   /\ call.additionalContext = computed.additionalContext
                   /\ Len(call.reactionMap) = Len(computed.reactionMap)
                   /\ EntriesOf(call.reactionMap) = EntriesOf(computed.reactionMap)

\* A reaction to an annotation created with a context and a map of three
\* keys, which the annotation lists in another order, reached a listener.
C13_Witness ==
    /\ CreatedReacted
    /\ Len(computed.reactionMap) = 3
    /\ computed.result.reaction_map # computed.reactionMap
    /\ computed.additionalContext # Undefined
    /\ computed.handled.invoked # <<>>

RECURSIVE KeycapsOf(_)
\* The keycap symbols of a digit string, concatenated in order.
KeycapsOf(digits) ==
    IF digits = <<>> THEN <<>>
    ELSE Keycap(Head(digits)) \o KeycapsOf(Tail(digits))

RECURSIVE DecodeKeycaps(_)
\* The inverse digit table applied symbol by symbol; "?" where the string
\* does not go on with a keycap symbol.
DecodeKeycaps(s) ==
    IF s = <<>> THEN <<>>
    ELSE IF /\ Len(s) >= 3
            /\ \E i \in 1..Len(DigitChar) : SubSeq(s, 1, 3) = Keycap(DigitChar[i])
         THEN <<s[1]>> \o DecodeKeycaps(SubSeq(s, 4, Len(s)))
         ELSE <<"?">>

KeycapsOfDigits ==
    /\ computed.result = KeycapsOf(PlainDecimal(computed.number))
    /\ DecodeKeycaps(computed.result) = PlainDecimal(computed.number)

C15_OneEntryPerItem ==
    computed.fn = "createItemizedReactionMap" =>
        /\ Len(computed.result) = Len(computed.items)
        /\ \A p \in 1..Len(computed.items) :
              /\ numberToEmoji(Number(p, 0)) \in Keys(computed.result)
              /\ Lookup(computed.result, numberToEmoji(Number(p, 0)))
                   = computed.items[p]
        /\ \A p, q \in 1..Len(computed.result) :
              computed.result[p].key = computed.result[q].key => p = q

\* A list of ten items, the same item more than once among them, was itemized.
C15_Witness ==
    /\ computed.fn = "createItemizedReactionMap"
    /\ Len(computed.items) = 10
    /\ computed.items[1] = computed.items[10]
    /\ computed.items[1] # computed.items[2]

====
